---- MODULE Spec2Model ----
(***************************************************************************)
(* A model of xesmf/frontend.py: the coordinate locator get_latlon_name,   *)
(* the mesh normalizer as_2d_mesh, the grid builder ds_to_ESMFgrid and the *)
(* Regridder (construction, weight-file lifecycle, regridding calls,       *)
(* clean_weight_file).                                                     *)
(*                                                                         *)
(* Python values are modelled as follows.  A string is a TLA+ string and   *)
(* None is the string "None".  A function that may raise returns a record  *)
(* with the fields raised and exc (the exception's class) beside its       *)
(* value.  A str-or-tuple value (a dimension name, or a tuple of them) is  *)
(* a record built by Str or Tup, so that a name and a 1-tuple holding that *)
(* name are different values, as they are in Python.                       *)
(***************************************************************************)
EXTENDS Integers, Sequences, FiniteSets, TLC

VARIABLES args, pc, rg, exc, fs, log, last, sched, call, ret

vars == <<args, pc, rg, exc, fs, log, last, sched, call, ret>>

\* Largest number of cells along one grid axis.
MaxN == 2

\* Largest number of leading (extra) axes of an array given to the regridder.
MaxExtra == 2

None == "None"

Extents == 1..MaxN

(***************************************************************************)
(* Python values                                                           *)
(***************************************************************************)
Str(s) == [t |-> "str", s |-> s, items |-> <<>>]

Tup(xs) == [t |-> "tuple", s |-> "", items |-> xs]

\* tuple(names): a tuple of strings
TupOfNames(names) == Tup([k \in 1..Len(names) |-> Str(names[k])])

IsName(v) == v.t = "str"

\* a + b on two tuples
TupConcat(a, b) == Tup(a.items \o b.items)

PyBool(b) == IF b THEN "True" ELSE "False"

Raise(e) == [raised |-> TRUE, exc |-> e, val |-> None]

Return(v) == [raised |-> FALSE, exc |-> "", val |-> v]

\* x = v, then F(x): a statement's result is computed once and then used
Bind(v, F(_)) == CHOOSE y \in {F(x) : x \in {v}} : TRUE

(***************************************************************************)
(* Arrays and grid descriptions                                            *)
(*                                                                         *)
(* An array is its rank, its data (a sequence for rank 1, a sequence of    *)
(* rows for rank 2) and, for a variable of a labeled dataset, its .dims.   *)
(* A grid description is a labeled dataset (it has .variables, and its     *)
(* variables have .dims) or a plain dictionary (it has neither); keys are  *)
(* the names it can be indexed by.  Centre latitudes are 101.., centre     *)
(* longitudes 1.., corner latitudes 301.. and corner longitudes 201.., so  *)
(* that the four fields are told apart by their values.                    *)
(***************************************************************************)
\* an xarray Dataset, or a dictionary of numpy arrays
Kinds == {"Dataset", "dict"}

IsDataset(ds) == ds.kind = "Dataset"

LatKeys == {"lat", "latitude"}

LonKeys == {"lon", "longitude"}

LatBKeys == {"lat_b", "latitude_b"}

LonBKeys == {"lon_b", "longitude_b"}

AllKeys == LatKeys \cup LonKeys \cup LatBKeys \cup LonBKeys

Shape(a) == IF a.ndim = 1 THEN <<Len(a.data)>> ELSE <<Len(a.data), Len(a.data[1])>>

Vec(n, base) == [k \in 1..n |-> base + k]

\* a 2-D field whose value depends on the row (byRow) or on the column
Field(ny, nx, base, byRow) ==
    [i \in 1..ny |-> [j \in 1..nx |-> IF byRow THEN base + i ELSE base + j]]

KeyBase(key) ==
    IF key \in LonKeys THEN 0
    ELSE IF key \in LatKeys THEN 100
    ELSE IF key \in LonBKeys THEN 200
    ELSE 300

KeyIsLat(key) == key \in LatKeys \cup LatBKeys

KeyIsBound(key) == key \in LatBKeys \cup LonBKeys

\* the array a grid description holds under key
ArrayOf(ds, key) ==
    LET ny == IF KeyIsBound(key) THEN ds.Ny + 1 ELSE ds.Ny
        nx == IF KeyIsBound(key) THEN ds.Nx + 1 ELSE ds.Nx
    IN  IF ds.rank = 1
        THEN [ndim |-> 1,
              data |-> Vec(IF KeyIsLat(key) THEN ny ELSE nx, KeyBase(key)),
              hasDims |-> IsDataset(ds),
              dims |-> <<key>>]
        ELSE [ndim |-> 2,
              data |-> Field(ny, nx, KeyBase(key), KeyIsLat(key)),
              hasDims |-> IsDataset(ds),
              dims |-> IF KeyIsBound(key) THEN <<"y_b", "x_b">> ELSE <<"y", "x">>]

\* ds[name]
GetItem(ds, name) ==
    IF name \in ds.keys THEN Return(ArrayOf(ds, name)) ELSE Raise("KeyError")

\* a.T of a rank-2 array's data
Transpose(m) ==
    [j \in 1..Len(m[1]) |-> [i \in 1..Len(m) |-> m[i][j]]]

(***************************************************************************)
(* get_latlon_name                                                         *)
(*                                                                         *)
(* The function raises ValueError when neither convention matches, catches *)
(* it itself, prints the message and goes on to "return lat_name,          *)
(* lon_name" with both names unassigned: the caller sees                   *)
(* UnboundLocalError.  ds.variables on a plain dictionary raises           *)
(* AttributeError, which the except ValueError clause does not catch.      *)
(***************************************************************************)
LocatorResult(raised, e, names, printed) ==
    [raised |-> raised, exc |-> e, val |-> names, printed |-> printed]

get_latlon_name(ds, boundary) ==
    IF ~IsDataset(ds) THEN LocatorResult(TRUE, "AttributeError", None, FALSE)
    ELSE IF boundary
    THEN IF "lat_b" \in ds.keys
         THEN LocatorResult(FALSE, "", <<"lat_b", "lon_b">>, FALSE)
         ELSE IF "latitude_b" \in ds.keys
         THEN LocatorResult(FALSE, "", <<"latitude_b", "longitude_b">>, FALSE)
         ELSE LocatorResult(TRUE, "UnboundLocalError", None, TRUE)
    ELSE IF "lat" \in ds.keys
         THEN LocatorResult(FALSE, "", <<"lat", "lon">>, FALSE)
         ELSE IF "latitude" \in ds.keys
         THEN LocatorResult(FALSE, "", <<"latitude", "longitude">>, FALSE)
         ELSE LocatorResult(TRUE, "UnboundLocalError", None, TRUE)

(***************************************************************************)
(* as_2d_mesh                                                              *)
(***************************************************************************)
\* np.meshgrid(lon, lat) of two vectors: both results have shape
\* (len(lat), len(lon)); row i of the first is lon, column j of the second is lat
meshgrid(lon, lat) ==
    [lon |-> [ndim |-> 2, hasDims |-> FALSE, dims |-> <<>>,
              data |-> [i \in 1..Len(lat.data) |-> [j \in 1..Len(lon.data) |-> lon.data[j]]]],
     lat |-> [ndim |-> 2, hasDims |-> FALSE, dims |-> <<>>,
              data |-> [i \in 1..Len(lat.data) |-> [j \in 1..Len(lon.data) |-> lat.data[i]]]]]

as_2d_mesh(lon, lat) ==
    IF lon.ndim = 2 /\ lat.ndim = 2
    THEN IF Shape(lon) = Shape(lat)
         THEN Return([lon |-> lon, lat |-> lat])
         ELSE Raise("AssertionError")
    ELSE IF lon.ndim = 1 /\ lat.ndim = 1
    THEN Return(meshgrid(lon, lat))
    ELSE Raise("ValueError")

(***************************************************************************)
(* ds_to_ESMFgrid                                                          *)
(***************************************************************************)
\* backend.esmf_grid: the handle records what it was built from
esmf_grid(lonT, latT, periodic) ==
    [lon |-> lonT, lat |-> latT, periodic |-> periodic,
     hasCorner |-> FALSE, lon_b |-> <<>>, lat_b |-> <<>>]

\* backend.add_corner
add_corner(grid, lon_bT, lat_bT) ==
    [grid EXCEPT !.hasCorner = TRUE, !.lon_b = lon_bT, !.lat_b = lat_bT]

NoGrid == esmf_grid(<<>>, <<>>, None)

GridRaise(e) == [raised |-> TRUE, exc |-> e, grid |-> NoGrid, shape |-> <<>>]

GridReturn(grid, shape) == [raised |-> FALSE, exc |-> "", grid |-> grid, shape |-> shape]

\* lines 96-100: the two names as the function binds them
\* (line 97 unpacks get_latlon_name's (lat_name, lon_name) into lon_name, lat_name)
CentreNames(ds, lat, lon) ==
    IF lat = None /\ lon = None
    THEN LET r == get_latlon_name(ds, FALSE)
         IN  IF r.raised THEN Raise(r.exc)
             ELSE Return([lon_name |-> r.val[1], lat_name |-> r.val[2]])
    ELSE Return([lon_name |-> lon, lat_name |-> lat])

\* lines 109-110 (line 110 unpacks (lat_name, lon_name) into lon_b, lat_b)
CornerNames(ds, lat_b, lon_b) ==
    IF lat_b = None /\ lon_b = None
    THEN LET r == get_latlon_name(ds, TRUE)
         IN  IF r.raised THEN Raise(r.exc)
             ELSE Return([lon_b |-> r.val[1], lat_b |-> r.val[2]])
    ELSE Return([lon_b |-> lon_b, lat_b |-> lat_b])

\* lines 108-114
AttachCorners(ds, grid, lat_b, lon_b) ==
    Bind(CornerNames(ds, lat_b, lon_b), LAMBDA n :
      IF n.raised THEN Raise(n.exc) ELSE
      Bind(GetItem(ds, n.val.lon_b), LAMBDA lonB :
        IF lonB.raised THEN Raise(lonB.exc) ELSE
        Bind(GetItem(ds, n.val.lat_b), LAMBDA latB :
          IF latB.raised THEN Raise(latB.exc) ELSE
          Bind(as_2d_mesh(lonB.val, latB.val), LAMBDA mesh :
            IF mesh.raised THEN Raise(mesh.exc)
            ELSE Return(add_corner(grid,
                                   Transpose(mesh.val.lon.data),
                                   Transpose(mesh.val.lat.data)))))))

\* lines 105-116, once the two centre arrays are read
GridOfMesh(ds, need_bounds, lat_b, lon_b, periodic, mesh) ==
    Bind(esmf_grid(Transpose(mesh.lon.data), Transpose(mesh.lat.data), periodic),
         LAMBDA grid :
      IF ~need_bounds THEN GridReturn(grid, Shape(mesh.lon)) ELSE
      Bind(AttachCorners(ds, grid, lat_b, lon_b), LAMBDA c :
        IF c.raised THEN GridRaise(c.exc) ELSE GridReturn(c.val, Shape(mesh.lon))))

ds_to_ESMFgrid(ds, need_bounds, lat, lon, lat_b, lon_b, periodic) ==
    Bind(CentreNames(ds, lat, lon), LAMBDA n :
      IF n.raised THEN GridRaise(n.exc) ELSE
      Bind(GetItem(ds, n.val.lon_name), LAMBDA lonA :
        IF lonA.raised THEN GridRaise(lonA.exc) ELSE
        Bind(GetItem(ds, n.val.lat_name), LAMBDA latA :
          IF latA.raised THEN GridRaise(latA.exc) ELSE
          Bind(as_2d_mesh(lonA.val, latA.val), LAMBDA mesh :
            IF mesh.raised THEN GridRaise(mesh.exc)
            ELSE GridOfMesh(ds, need_bounds, lat_b, lon_b, periodic, mesh.val)))))

(***************************************************************************)
(* Regridder.__init__, lines 212-298: everything before the weight file is *)
(* touched.                                                                *)
(***************************************************************************)
\* lines 213-217
NeedBounds(method) == method = "conservative"

\* __init__ without the "periodic = False" of line 215
EffectivePeriodicAsGiven(method, periodic) == periodic

\* lines 213-215 and 220: the value self.periodic records
EffectivePeriodic(method, periodic) ==
    IF method = "conservative" THEN FALSE ELSE periodic

\* lines 224-228, 229-234, 235-239, 240-245: one pair of names
ResolveNames(ds, lat, lon, boundary) ==
    IF lat = None /\ lon = None
    THEN LET r == get_latlon_name(ds, boundary)
         IN  IF r.raised THEN Raise(r.exc)
             ELSE Return([lat |-> r.val[1], lon |-> r.val[2]])
    ELSE Return([lat |-> lat, lon |-> lon])

\* lines 268-284: lon_dim, lat_dim and horiz_dims.  The try blocks read .dims,
\* which a dataset's variable has and a dictionary's array has not.
OutputDims(lonVar, latVar, lon_name_out, lat_name_out) ==
    IF lonVar.ndim = 2
    THEN LET d == IF lonVar.hasDims THEN TupOfNames(lonVar.dims)
                  ELSE TupOfNames(<<"y", "x">>)
         IN  [lon_dim |-> d, lat_dim |-> d, horiz_dims |-> d]
    ELSE LET labeled == lonVar.hasDims /\ latVar.hasDims
             lon_dim == IF labeled THEN TupOfNames(lonVar.dims) ELSE Str(lon_name_out)
             lat_dim == IF labeled THEN TupOfNames(latVar.dims) ELSE Str(lat_name_out)
         IN  [lon_dim |-> lon_dim, lat_dim |-> lat_dim,
              horiz_dims |-> Tup(<<lat_dim, lon_dim>>)]

\* lines 304-313
get_default_filename(method, Ny_in, Nx_in, Ny_out, Nx_out, periodic) ==
    method \o "_" \o ToString(Ny_in) \o "x" \o ToString(Nx_in)
           \o "_" \o ToString(Ny_out) \o "x" \o ToString(Nx_out)
           \o (IF periodic THEN "_peri.nc" ELSE ".nc")

\* lines 295-298
ChooseFilename(filename, default) ==
    IF filename = None THEN default ELSE filename

NoOperator == [loaded |-> FALSE, path |-> None, n_in |-> 0, n_out |-> 0, weights |-> None]

\* the object before __init__ has run
NoRegridder == [constructed |-> FALSE]

InitRaise(e) == [raised |-> TRUE, exc |-> e, self |-> NoRegridder]

\* lines 286-298, with the output metadata d of lines 264-284
FieldsOf(a, need_bounds, periodic, nin, nbin, nout, nbout, gin, gout, lonVar, latVar, d) ==
    [constructed |-> TRUE,
     need_bounds |-> need_bounds,
     method |-> a.method,
     periodic |-> periodic,
     reuse_weights |-> a.reuse_weights,
     lat_name_in |-> nin.lat, lon_name_in |-> nin.lon,
     lat_b_name_in |-> nbin.lat, lon_b_name_in |-> nbin.lon,
     lat_name_out |-> nout.lat, lon_name_out |-> nout.lon,
     lat_b_name_out |-> nbout.lat, lon_b_name_out |-> nbout.lon,
     grid_in |-> gin.grid, grid_out |-> gout.grid,
     lon_out |-> lonVar.data, lat_out |-> latVar.data,
     lon_out_ndim |-> lonVar.ndim, lat_out_ndim |-> latVar.ndim,
     lon_dim |-> d.lon_dim, lat_dim |-> d.lat_dim, horiz_dims |-> d.horiz_dims,
     Ny_in |-> gin.shape[1], Nx_in |-> gin.shape[2],
     Ny_out |-> gout.shape[1], Nx_out |-> gout.shape[2],
     N_in |-> gin.shape[1] * gin.shape[2],
     N_out |-> gout.shape[1] * gout.shape[2],
     filename |-> ChooseFilename(a.filename,
                     get_default_filename(a.method, gin.shape[1], gin.shape[2],
                                          gout.shape[1], gout.shape[2], periodic)),
     A |-> NoOperator]

\* lines 264-298, once both grids are built
RecordFields(a, need_bounds, periodic, nin, nbin, nout, nbout, gin, gout) ==
    Bind(ArrayOf(a.ds_out, nout.lon), LAMBDA lonVar :
      Bind(ArrayOf(a.ds_out, nout.lat), LAMBDA latVar :
        Bind(OutputDims(lonVar, latVar, nout.lon, nout.lat), LAMBDA d :
          FieldsOf(a, need_bounds, periodic, nin, nbin, nout, nbout,
                   gin, gout, lonVar, latVar, d))))

\* lines 247-262
BuildGrids(a, need_bounds, periodic, nin, nbin, nout, nbout) ==
    Bind(ds_to_ESMFgrid(a.ds_in, need_bounds, nin.lat, nin.lon,
                        nbin.lat, nbin.lon, PyBool(periodic)), LAMBDA gin :
      IF gin.raised THEN InitRaise(gin.exc) ELSE
      Bind(ds_to_ESMFgrid(a.ds_out, need_bounds, nout.lat, nout.lon,
                          nbout.lat, nbout.lon, None), LAMBDA gout :
        IF gout.raised THEN InitRaise(gout.exc)
        ELSE [raised |-> FALSE, exc |-> "",
              self |-> RecordFields(a, need_bounds, periodic,
                                    nin, nbin, nout, nbout, gin, gout)]))

\* lines 223-245, then the rest
ResolveAndBuild(a, need_bounds, periodic) ==
    Bind(ResolveNames(a.ds_in, a.lat_in, a.lon_in, FALSE), LAMBDA nin :
      IF nin.raised THEN InitRaise(nin.exc) ELSE
      Bind(ResolveNames(a.ds_in, a.lat_b_in, a.lon_b_in, TRUE), LAMBDA nbin :
        IF nbin.raised THEN InitRaise(nbin.exc) ELSE
        Bind(ResolveNames(a.ds_out, a.lat_out, a.lon_out, FALSE), LAMBDA nout :
          IF nout.raised THEN InitRaise(nout.exc) ELSE
          Bind(ResolveNames(a.ds_out, a.lat_b_out, a.lon_b_out, TRUE), LAMBDA nbout :
            IF nbout.raised THEN InitRaise(nbout.exc)
            ELSE BuildGrids(a, need_bounds, periodic,
                            nin.val, nbin.val, nout.val, nbout.val)))))

\* lines 212-298
Regridder_init(a) ==
    Bind(NeedBounds(a.method), LAMBDA need_bounds :
      Bind(EffectivePeriodic(a.method, a.periodic), LAMBDA periodic :
        ResolveAndBuild(a, need_bounds, periodic)))

(***************************************************************************)
(* The weight file: the file system, esmf_regrid_build, read_weights       *)
(***************************************************************************)
\* os.path.exists
path_exists(files, p) == p \in DOMAIN files

\* os.remove
os_remove(files, p) ==
    IF p \in DOMAIN files
    THEN [raised |-> FALSE, exc |-> "", files |-> [q \in DOMAIN files \ {p} |-> files[q]]]
    ELSE [raised |-> TRUE, exc |-> "FileNotFoundError", files |-> files]

\* the weights instance i's build writes; writer 0 is a file found on disk
Weights(i) == [writer |-> i]

\* what an existence check that finds no file has seen
NoWeights == [writer |-> -1]

\* backend.esmf_regrid_build(grid_in, grid_out, method, filename=p): writes the
\* weights to p
esmf_regrid_build(files, p, w) ==
    [q \in DOMAIN files \cup {p} |-> IF q = p THEN w ELSE files[q]]

\* smm.read_weights(filename, N_in, N_out)
read_weights(files, p, n_in, n_out) ==
    IF p \in DOMAIN files
    THEN Return([loaded |-> TRUE, path |-> p, n_in |-> n_in, n_out |-> n_out,
                 weights |-> files[p]])
    ELSE Raise("IOError")

\* _write_weight_file rebuilding whatever reuse_weights says
WriteBranchIgnoreReuse(exists, reuse_weights) ==
    IF exists THEN "remove" ELSE "build"

\* _write_weight_file without the os.remove of lines 321-325
WriteBranchNoRemove(exists, reuse_weights) ==
    IF exists /\ reuse_weights THEN "read" ELSE "build"

\* _write_weight_file without the os.path.exists of line 317
WriteBranchNoCheck(exists, reuse_weights) ==
    IF reuse_weights THEN "read" ELSE "remove"

\* lines 317-327: where _write_weight_file goes after os.path.exists
WriteBranch(exists, reuse_weights) ==
    IF exists
    THEN IF reuse_weights THEN "read" ELSE "remove"
    ELSE "build"

\* clean_weight_file without the os.path.exists of line 340
clean_weight_file_unchecked(files, p) ==
    [raised |-> os_remove(files, p).raised, exc |-> os_remove(files, p).exc,
     files |-> os_remove(files, p).files, printed |-> "Remove file"]

\* lines 340-344
clean_weight_file(files, p) ==
    IF path_exists(files, p)
    THEN LET r == os_remove(files, p)
         IN  [raised |-> r.raised, exc |-> r.exc, files |-> r.files,
              printed |-> "Remove file"]
    ELSE [raised |-> FALSE, exc |-> "", files |-> files,
          printed |-> "already removed"]

(***************************************************************************)
(* Regridding calls                                                        *)
(***************************************************************************)
\* shape[-2:]
LastTwo(shape) ==
    IF Len(shape) <= 2 THEN shape ELSE SubSeq(shape, Len(shape) - 1, Len(shape))

\* x[0:-2]
AllButLastTwo(xs) ==
    IF Len(xs) <= 2 THEN <<>> ELSE SubSeq(xs, 1, Len(xs) - 2)

\* smm.apply_weights(A, indata, Ny_out, Nx_out): the leading axes of indata,
\* then (Ny_out, Nx_out)
apply_weights(A, shape, Ny_out, Nx_out) ==
    [shape |-> AllButLastTwo(shape) \o <<Ny_out, Nx_out>>, by |-> A]

\* the assert of line 402 comparing the last axis only
ShapeAcceptedLastAxis(shape_horiz, Ny_in, Nx_in) ==
    Len(shape_horiz) >= 1 /\ shape_horiz[Len(shape_horiz)] = Nx_in

\* lines 401-407
ShapeAccepted(shape_horiz, Ny_in, Nx_in) == shape_horiz = <<Ny_in, Nx_in>>

regrid_numpy(self, shape) ==
    IF ShapeAccepted(LastTwo(shape), self.Ny_in, self.Nx_in)
    THEN [raised |-> FALSE, exc |-> "",
          codec |-> <<[A |-> self.A, shape |-> shape,
                       Ny_out |-> self.Ny_out, Nx_out |-> self.Nx_out]>>,
          out |-> apply_weights(self.A, shape, self.Ny_out, self.Nx_out)]
    ELSE [raised |-> TRUE, exc |-> "AssertionError", codec |-> <<>>, out |-> None]

\* xr.DataArray(data, dims=dims): dims is a tuple of names or one name; there
\* must be one per axis
xr_dims(dims) == IF dims.t = "str" THEN <<dims>> ELSE dims.items

\* dr_out.coords[name] = xr.DataArray(values, dims=dims): the coordinate's
\* dimensions must be dimensions of dr_out
CoordFits(out_dims, ndim, dims) ==
    /\ Len(xr_dims(dims)) = ndim
    /\ \A k \in 1..Len(xr_dims(dims)) :
           \E m \in 1..Len(out_dims) : out_dims[m] = xr_dims(dims)[k]

\* lines 446-459, once regrid_numpy has returned r
WrapOutput(self, dr_in, r, extra_dims, dims) ==
    IF \/ Len(dims) # Len(r.out.shape)
       \/ ~CoordFits(dims, self.lon_out_ndim, self.lon_dim)
       \/ ~CoordFits(dims, self.lat_out_ndim, self.lat_dim)
    THEN [raised |-> TRUE, exc |-> "ValueError", codec |-> r.codec, out |-> None]
    ELSE [raised |-> FALSE, exc |-> "", codec |-> r.codec,
          out |-> [shape |-> r.out.shape,
                   by |-> r.out.by,
                   dims |-> dims,
                   name |-> dr_in.name,
                   coords |->
                       [n \in {self.lon_name_out, self.lat_name_out}
                              \cup {extra_dims[k] : k \in 1..Len(extra_dims)} |->
                           IF n \in {extra_dims[k] : k \in 1..Len(extra_dims)}
                           THEN dr_in.coords[n]
                           ELSE IF n = self.lat_name_out
                           THEN [dims |-> xr_dims(self.lat_dim), data |-> self.lat_out]
                           ELSE [dims |-> xr_dims(self.lon_dim), data |-> self.lon_out]],
                   attrs |-> [regrid_method |-> self.method]]]

\* lines 439-459
regrid_dataarray(self, dr_in) ==
    Bind(regrid_numpy(self, dr_in.shape), LAMBDA r :
      IF r.raised THEN [raised |-> TRUE, exc |-> r.exc, codec |-> r.codec, out |-> None]
      ELSE Bind(AllButLastTwo(dr_in.dims), LAMBDA extra_dims :
             Bind(TupConcat(TupOfNames(extra_dims), self.horiz_dims).items, LAMBDA dims :
               WrapOutput(self, dr_in, r, extra_dims, dims))))

\* lines 376-383
Regridder_call(self, a) ==
    IF a.kind = "ndarray" THEN regrid_numpy(self, a.shape)
    ELSE IF a.kind = "DataArray" THEN regrid_dataarray(self, a)
    ELSE [raised |-> TRUE, exc |-> "TypeError", codec |-> <<>>, out |-> None]

(***************************************************************************)
(* Inputs                                                                  *)
(***************************************************************************)
Methods == {"bilinear", "conservative", "patch", "nearest_s2d", "nearest_d2s"}

Ds(kind, keys, rank, ny, nx) ==
    [kind |-> kind, keys |-> keys, rank |-> rank, Ny |-> ny, Nx |-> nx]

ConvA == {"lat", "lon"}

ConvB == {"latitude", "longitude"}

ConvAb == {"lat", "lon", "lat_b", "lon_b"}

ConvBb == {"latitude", "longitude", "latitude_b", "longitude_b"}

KeySets == {{}, ConvA, ConvB, ConvAb, ConvBb}

\* the names a caller passes explicitly, or None for all four
NamesGiven(explicit) ==
    IF explicit
    THEN [lat |-> "lat", lon |-> "lon", lat_b |-> "lat_b", lon_b |-> "lon_b"]
    ELSE [lat |-> None, lon |-> None, lat_b |-> None, lon_b |-> None]

CtorArgs(ds_in, ds_out, method, periodic, filename, reuse, exp_in, exp_out) ==
    [ds_in |-> ds_in, ds_out |-> ds_out, method |-> method, periodic |-> periodic,
     filename |-> filename, reuse_weights |-> reuse,
     lat_in |-> NamesGiven(exp_in).lat, lon_in |-> NamesGiven(exp_in).lon,
     lat_b_in |-> NamesGiven(exp_in).lat_b, lon_b_in |-> NamesGiven(exp_in).lon_b,
     lat_out |-> NamesGiven(exp_out).lat, lon_out |-> NamesGiven(exp_out).lon,
     lat_b_out |-> NamesGiven(exp_out).lat_b, lon_b_out |-> NamesGiven(exp_out).lon_b]

\* the shapes of the arrays a regridder is called with: up to MaxExtra
\* leading axes, of extents no grid has and that differ from axis to axis,
\* then two trailing axes; or fewer than two axes
LeadShape(k) == [j \in 1..k |-> MaxN + j]

InputShapes ==
    {LeadShape(k) \o t : k \in 0..MaxExtra, t \in [1..2 -> Extents]}
        \cup {<<>>} \cup {<<n>> : n \in Extents}

DimNamesOf(n) ==
    [k \in 1..n |-> IF k = n THEN "x_in" ELSE IF k = n - 1 THEN "y_in"
                    ELSE "d" \o ToString(k)]

Input(kind, shape) ==
    [kind |-> kind, shape |-> shape, name |-> "var",
     dims |-> DimNamesOf(Len(shape)),
     coords |-> [n \in {DimNamesOf(Len(shape))[k] : k \in 1..Len(shape)} |->
                    [dims |-> <<n>>,
                     data |-> Vec(shape[CHOOSE k \in 1..Len(shape) :
                                            DimNamesOf(Len(shape))[k] = n], 400)]]]

Inputs ==
    {Input(kind, shape) : kind \in {"ndarray", "DataArray"}, shape \in InputShapes}
        \cup {Input("Dataset", <<>>)}

(***************************************************************************)
(* State                                                                   *)
(*                                                                         *)
(* args, pc, rg, exc and log are functions of the Regridder instances      *)
(* under construction or in use.  pc[i] is "new" before __init__ runs,     *)
(* "exists", "remove", "build", "finalize" and "read" before the call of   *)
(* that name in _write_weight_file and __init__, "ready" once __init__ has *)
(* returned and "failed" when it has raised exc[i].  fs is the file        *)
(* system, log[i] the calls instance i has made to the file system and to  *)
(* the two collaborators, last the latest call of a method of a            *)
(* constructed Regridder.  sched is the callers' discipline: "serial" when *)
(* they let one construction touch the weight file at a time.  call and    *)
(* ret are the arguments and the result of a module-level function.        *)
(***************************************************************************)
NoFiles == [q \in {} |-> Weights(0)]

NoCall == [fn |-> "none"]

NoLast == [op |-> "none"]

InLifecycle == {"remove", "build", "finalize", "read"}

\* callers that serialize artifact creation let instance i touch the weight
\* file only while no other instance is between its existence check and its load
MayRun(i) ==
    sched = "interleaved" \/ \A j \in DOMAIN pc \ {i} : pc[j] \notin InLifecycle

Fail(i, e) ==
    /\ pc' = [pc EXCEPT ![i] = "failed"]
    /\ exc' = [exc EXCEPT ![i] = e]

\* __init__ up to line 298
Construct(i) ==
    /\ pc[i] = "new"
    /\ \E r \in {Regridder_init(args[i])} :
           IF r.raised
           THEN Fail(i, r.exc) /\ UNCHANGED rg
           ELSE /\ rg' = [rg EXCEPT ![i] = r.self]
                /\ pc' = [pc EXCEPT ![i] = "exists"]
                /\ UNCHANGED exc
    /\ UNCHANGED <<args, fs, log, last, sched, call, ret>>

\* line 317 and the branch taken on its result
Exists(i) ==
    /\ pc[i] = "exists"
    /\ MayRun(i)
    /\ LET p == rg[i].filename
           e == path_exists(fs, p)
       IN  /\ log' = [log EXCEPT ![i] =
                         Append(@, <<"exists", p, e, IF e THEN fs[p] ELSE NoWeights>>)]
           /\ pc' = [pc EXCEPT ![i] = WriteBranch(e, rg[i].reuse_weights)]
    /\ UNCHANGED <<args, rg, exc, fs, last, sched, call, ret>>

\* line 325
Remove(i) ==
    /\ pc[i] = "remove"
    /\ MayRun(i)
    /\ LET r == os_remove(fs, rg[i].filename)
       IN  IF r.raised
           THEN Fail(i, r.exc) /\ UNCHANGED <<fs, log>>
           ELSE /\ fs' = r.files
                /\ log' = [log EXCEPT ![i] = Append(@, <<"remove", rg[i].filename>>)]
                /\ pc' = [pc EXCEPT ![i] = "build"]
                /\ UNCHANGED exc
    /\ UNCHANGED <<args, rg, last, sched, call, ret>>

\* lines 329-330
Build(i) ==
    /\ pc[i] = "build"
    /\ MayRun(i)
    /\ fs' = esmf_regrid_build(fs, rg[i].filename, Weights(i))
    /\ log' = [log EXCEPT ![i] =
                  Append(@, <<"esmf_regrid_build", rg[i].grid_in, rg[i].grid_out,
                              rg[i].method, rg[i].filename>>)]
    /\ pc' = [pc EXCEPT ![i] = "finalize"]
    /\ UNCHANGED <<args, rg, exc, last, sched, call, ret>>

\* line 331
Finalize(i) ==
    /\ pc[i] = "finalize"
    /\ MayRun(i)
    /\ log' = [log EXCEPT ![i] = Append(@, <<"esmf_regrid_finalize", i>>)]
    /\ pc' = [pc EXCEPT ![i] = "read"]
    /\ UNCHANGED <<args, rg, exc, fs, last, sched, call, ret>>

\* line 302
Read(i) ==
    /\ pc[i] = "read"
    /\ MayRun(i)
    /\ \E r \in {read_weights(fs, rg[i].filename, rg[i].N_in, rg[i].N_out)} :
           /\ log' = [log EXCEPT ![i] =
                         Append(@, <<"read_weights", rg[i].filename,
                                     rg[i].N_in, rg[i].N_out>>)]
           /\ IF r.raised
              THEN Fail(i, r.exc) /\ UNCHANGED rg
              ELSE /\ rg' = [rg EXCEPT ![i].A = r.val]
                   /\ pc' = [pc EXCEPT ![i] = "ready"]
                   /\ UNCHANGED exc
    /\ UNCHANGED <<args, fs, last, sched, call, ret>>

\* regridder(a)
Call(i) ==
    /\ pc[i] = "ready"
    /\ \E a \in Inputs :
           last' = [op |-> "__call__", inst |-> i, input |-> a,
                    result |-> Regridder_call(rg[i], a)]
    /\ UNCHANGED <<args, pc, rg, exc, fs, log, sched, call, ret>>

\* regridder.clean_weight_file()
Clean(i) ==
    /\ pc[i] = "ready"
    /\ LET r == clean_weight_file(fs, rg[i].filename)
       IN  /\ fs' = r.files
           /\ last' = [op |-> "clean_weight_file", inst |-> i,
                       existed |-> path_exists(fs, rg[i].filename),
                       raised |-> r.raised, exc |-> r.exc, printed |-> r.printed]
    /\ UNCHANGED <<args, pc, rg, exc, log, sched, call, ret>>

(***************************************************************************)
(* Specifications                                                          *)
(***************************************************************************)
\* the path a construction with arguments a targets ("" when it raises first)
TargetPath(a) ==
    Bind(Regridder_init(a), LAMBDA r : IF r.raised THEN "" ELSE r.self.filename)

FilesAt(paths) == [q \in paths |-> Weights(0)]

Idle(insts) ==
    /\ pc = [i \in insts |-> "new"]
    /\ rg = [i \in insts |-> NoRegridder]
    /\ exc = [i \in insts |-> ""]
    /\ log = [i \in insts |-> <<>>]
    /\ last = NoLast

\* One Regridder: its construction, then any calls of it and of
\* clean_weight_file.  Either the weight-file options vary over one pair of
\* grids, or the grids vary under one set of options.
LifeCases ==
    {CtorArgs(Ds("Dataset", ConvAb, 1, 2, 1), Ds("Dataset", ConvAb, 1, 1, 2),
              method, periodic, filename, reuse, FALSE, FALSE) :
        method \in Methods, periodic \in BOOLEAN,
        filename \in {None, "weights.nc"}, reuse \in BOOLEAN}

GridCases ==
    {CtorArgs(Ds("Dataset", ConvAb, 1, s[1], s[2]), Ds(kind, ConvAb, rank, s[2] + 1, s[1]),
              "bilinear", FALSE, None, FALSE, FALSE, kind = "dict") :
        s \in [1..2 -> Extents], kind \in Kinds, rank \in 1..2}

Init ==
    /\ \/ \E a \in LifeCases :
              /\ args = [i \in {1} |-> a]
              /\ \E paths \in {{}, {TargetPath(a)}, {"unrelated.nc"}} : fs = FilesAt(paths)
       \/ \E a \in GridCases :
              /\ args = [i \in {1} |-> a]
              /\ fs = NoFiles
    /\ Idle({1})
    /\ sched = "serial"
    /\ call = NoCall
    /\ ret = NoCall

Next ==
    \/ \E i \in DOMAIN pc : Construct(i)
    \/ \E i \in DOMAIN pc : Exists(i)
    \/ \E i \in DOMAIN pc : Remove(i)
    \/ \E i \in DOMAIN pc : Build(i)
    \/ \E i \in DOMAIN pc : Finalize(i)
    \/ \E i \in DOMAIN pc : Read(i)
    \/ \E i \in DOMAIN pc : Call(i)
    \/ \E i \in DOMAIN pc : Clean(i)

Spec == Init /\ [][Next]_vars

\* Construction up to the weight file, over the naming conventions, the kinds
\* and ranks of grid description, the methods and the grid shapes.
ConvCases ==
    {CtorArgs(Ds(lab_in, keys_in, 1, 2, 1), Ds(lab_out, keys_out, rank_out, 1, 2),
              method, periodic, None, FALSE, exp_in, exp_out) :
        lab_in \in Kinds, keys_in \in KeySets,
        lab_out \in Kinds, keys_out \in KeySets, rank_out \in 1..2,
        method \in Methods, periodic \in BOOLEAN,
        exp_in \in BOOLEAN, exp_out \in BOOLEAN}

ShapeCases ==
    {CtorArgs(Ds("Dataset", ConvAb, rank_in, s[1], s[2]), Ds("Dataset", ConvAb, 1, s[3], s[4]),
              method, periodic, filename, FALSE, FALSE, FALSE) :
        s \in [1..4 -> Extents], rank_in \in 1..2,
        method \in Methods, periodic \in BOOLEAN,
        filename \in {None, "weights.nc"}}

InitCtor ==
    /\ \E a \in ConvCases \cup ShapeCases : args = [i \in {1} |-> a]
    /\ fs = NoFiles
    /\ Idle({1})
    /\ sched = "serial"
    /\ call = NoCall
    /\ ret = NoCall

NextCtor == \E i \in DOMAIN pc : Construct(i)

SpecCtor == InitCtor /\ [][NextCtor]_vars

\* Two Regridders built for the same grids and method, hence on the same weight
\* file, by callers that serialize the constructions or do not.
InitConc ==
    /\ \E r \in [{1, 2} -> BOOLEAN] :
           args = [i \in {1, 2} |->
                      CtorArgs(Ds("Dataset", ConvAb, 1, 2, 1), Ds("Dataset", ConvAb, 1, 1, 2),
                               "bilinear", FALSE, None, r[i], FALSE, FALSE)]
    /\ \E paths \in {{}, {"bilinear_2x1_1x2.nc"}} : fs = FilesAt(paths)
    /\ Idle({1, 2})
    /\ sched \in {"serial", "interleaved"}
    /\ call = NoCall
    /\ ret = NoCall

NextConc ==
    \/ \E i \in DOMAIN pc : Construct(i)
    \/ \E i \in DOMAIN pc : Exists(i)
    \/ \E i \in DOMAIN pc : Remove(i)
    \/ \E i \in DOMAIN pc : Build(i)
    \/ \E i \in DOMAIN pc : Finalize(i)
    \/ \E i \in DOMAIN pc : Read(i)

SpecConc == InitConc /\ [][NextConc]_vars

\* get_latlon_name on its own
LocatorCalls ==
    {[fn |-> "get_latlon_name", ds |-> Ds(kind, keys, 1, 1, 1), boundary |-> b] :
        kind \in Kinds, keys \in SUBSET AllKeys, b \in BOOLEAN}

InitLocator ==
    /\ call \in LocatorCalls
    /\ ret = NoCall
    /\ args = <<>> /\ fs = NoFiles /\ sched = "serial"
    /\ Idle({})

CallLocator ==
    /\ call.fn = "get_latlon_name"
    /\ ret = NoCall
    /\ ret' = [fn |-> call.fn, result |-> get_latlon_name(call.ds, call.boundary)]
    /\ UNCHANGED <<args, pc, rg, exc, fs, log, last, sched, call>>

NextLocator == CallLocator

SpecLocator == InitLocator /\ [][NextLocator]_vars

\* ds_to_ESMFgrid on its own
NamePairs(a, b) == {<<None, None>>, a, b}

GridCalls ==
    {[fn |-> "ds_to_ESMFgrid", ds |-> Ds(kind, keys, rank, ny, nx),
      need_bounds |-> nb, lat |-> c[1], lon |-> c[2], lat_b |-> e[1], lon_b |-> e[2],
      periodic |-> per] :
        kind \in Kinds, keys \in KeySets, rank \in 1..2,
        ny \in Extents, nx \in {n + 1 : n \in Extents}, nb \in BOOLEAN,
        c \in NamePairs(<<"lat", "lon">>, <<"latitude", "longitude">>),
        e \in NamePairs(<<"lat_b", "lon_b">>, <<"latitude_b", "longitude_b">>),
        per \in {None, "True", "False"}}

InitGrid ==
    /\ call \in GridCalls
    /\ ret = NoCall
    /\ args = <<>> /\ fs = NoFiles /\ sched = "serial"
    /\ Idle({})

CallGrid ==
    /\ call.fn = "ds_to_ESMFgrid"
    /\ ret = NoCall
    /\ ret' = [fn |-> call.fn,
               result |-> ds_to_ESMFgrid(call.ds, call.need_bounds, call.lat, call.lon,
                                         call.lat_b, call.lon_b, call.periodic)]
    /\ UNCHANGED <<args, pc, rg, exc, fs, log, last, sched, call>>

NextGrid == CallGrid

SpecGrid == InitGrid /\ [][NextGrid]_vars

(***************************************************************************)
(* Properties                                                              *)
(***************************************************************************)
\* instance i's existence check has run and found (or not found) the file
Checked(i, found) ==
    /\ Len(log[i]) >= 1
    /\ log[i][1][1] = "exists"
    /\ log[i][1][3] = found

IsPrefix(s, t) == Len(s) <= Len(t) /\ \A k \in 1..Len(s) : s[k] = t[k]

\* the cell counts of the grids the caller passed
CellsIn(i) == args[i].ds_in.Ny * args[i].ds_in.Nx

CellsOut(i) == args[i].ds_out.Ny * args[i].ds_out.Nx

\* the path the construction targets: the caller's filename, else the default
Target(i) == IF args[i].filename = None THEN rg[i].filename ELSE args[i].filename

\* C1: a construction with reuse_weights=true that finds a file at its target
\* path (default or caller-supplied) never calls esmf_regrid_build (nor
\* esmf_regrid_finalize), never removes or rewrites the file, and then loads
\* its operator from that path with (N_in, N_out): its calls are the existence
\* check followed by read_weights(path, N_in, N_out), the file still holds what
\* os.path.exists found when it is read, and self.A is what read_weights returned.
C1_CacheHit ==
    \A i \in DOMAIN pc :
        (args[i].reuse_weights /\ Checked(i, TRUE)) =>
            /\ \A k \in 1..Len(log[i]) :
                   log[i][k][1] \notin {"remove", "esmf_regrid_build", "esmf_regrid_finalize"}
            /\ log[i][1][2] = Target(i)
            /\ IsPrefix(log[i], <<log[i][1],
                                  <<"read_weights", Target(i), CellsIn(i), CellsOut(i)>>>>)
            /\ pc[i] \in {"read", "ready"}
            /\ pc[i] = "read" =>
                   /\ Len(log[i]) = 1
                   /\ path_exists(fs, Target(i))
                   /\ fs[Target(i)] = log[i][1][4]
            /\ pc[i] = "ready" =>
                   /\ Len(log[i]) = 2
                   /\ rg[i].A = [loaded |-> TRUE, path |-> Target(i),
                                 n_in |-> CellsIn(i), n_out |-> CellsOut(i),
                                 weights |-> log[i][1][4]]

C1_Witness ==
    \E i \in DOMAIN pc :
        /\ pc[i] = "ready"
        /\ args[i].reuse_weights
        /\ Checked(i, TRUE)
        /\ rg[i].A.loaded
        /\ args[i].filename = None

\* the calls of a construction that rebuilds, in order
RebuildCalls(i, existed) ==
    <<log[i][1]>>
        \o (IF existed THEN << <<"remove", Target(i)>> >> ELSE <<>>)
        \o << <<"esmf_regrid_build", rg[i].grid_in, rg[i].grid_out,
                args[i].method, Target(i)>>,
              <<"esmf_regrid_finalize", i>>,
              <<"read_weights", Target(i), CellsIn(i), CellsOut(i)>> >>

\* C2: a construction with reuse_weights=false that finds a file at its target
\* path removes it first, then calls esmf_regrid_build exactly once with
\* (grid_in, grid_out, method, target path), then esmf_regrid_finalize on its
\* handle, and only then read_weights on the target path; when it finds no
\* file the calls are the same without the removal.  At every point of the
\* construction the calls made so far are a prefix of that sequence, and all
\* of it has been made when __init__ returns.
C2_Overwrite ==
    \A i \in DOMAIN pc :
        (~args[i].reuse_weights /\ Len(log[i]) >= 1) =>
            /\ log[i][1][1] = "exists"
            /\ log[i][1][2] = Target(i)
            /\ IsPrefix(log[i], RebuildCalls(i, log[i][1][3]))
            /\ pc[i] = "ready" =>
                   /\ log[i] = RebuildCalls(i, log[i][1][3])
                   /\ rg[i].A.loaded /\ rg[i].A.path = Target(i)

C2_Witness ==
    \E i \in DOMAIN pc :
        /\ pc[i] = "ready"
        /\ ~args[i].reuse_weights
        /\ Checked(i, TRUE)
        /\ Len(log[i]) = 5
        /\ log[i][2][1] = "remove"

\* the name the naming scheme gives the caller's grids, method and periodic
SchemeName(a) ==
    a.method \o "_" \o ToString(a.ds_in.Ny) \o "x" \o ToString(a.ds_in.Nx)
             \o "_" \o ToString(a.ds_out.Ny) \o "x" \o ToString(a.ds_out.Nx)
             \o (IF a.method # "conservative" /\ a.periodic THEN "_peri.nc" ELSE ".nc")

\* C3: a Regridder constructed without a filename is named
\* {method}_{Ny_in}x{Nx_in}_{Ny_out}x{Nx_out}, then "_peri.nc" when the
\* effective periodic flag is true and ".nc" otherwise; the effective flag,
\* which self.periodic records, is the caller's for every method but
\* conservative and false for conservative.
C3_DefaultFilename ==
    \A i \in DOMAIN pc :
        pc[i] = "exists" =>
            /\ rg[i].periodic = (args[i].method # "conservative" /\ args[i].periodic)
            /\ args[i].filename = None => rg[i].filename = SchemeName(args[i])

C3_Witness ==
    \E i \in DOMAIN pc :
        /\ pc[i] = "exists"
        /\ args[i].method = "conservative"
        /\ args[i].periodic
        /\ args[i].filename = None
        /\ rg[i].filename = "conservative_2x1_1x2.nc"

\* the trailing two axes of shape are the source grid's (Ny_in, Nx_in)
TrailingAxesMatch(i, shape) ==
    /\ Len(shape) >= 2
    /\ shape[Len(shape) - 1] = args[i].ds_in.Ny
    /\ shape[Len(shape)] = args[i].ds_in.Nx

\* C4: a Regridder called with a bare array reaches apply_weights exactly when
\* the array's trailing two axes are (Ny_in, Nx_in); it then calls it once with
\* the loaded operator, the array and (Ny_out, Nx_out), and the result has the
\* array's leading axes followed by (Ny_out, Nx_out); in every other case,
\* arrays with fewer than two axes included, the call fails on the shape
\* assertion and apply_weights is not called.
C4_ApplyShape ==
    (last.op = "__call__" /\ last.input.kind = "ndarray") =>
        IF TrailingAxesMatch(last.inst, last.input.shape)
        THEN /\ ~last.result.raised
             /\ last.result.codec =
                    <<[A |-> rg[last.inst].A, shape |-> last.input.shape,
                       Ny_out |-> args[last.inst].ds_out.Ny,
                       Nx_out |-> args[last.inst].ds_out.Nx]>>
             /\ rg[last.inst].A.loaded
             /\ Len(last.result.out.shape) = Len(last.input.shape)
             /\ \A k \in 1..Len(last.input.shape) :
                    last.result.out.shape[k] =
                        IF k = Len(last.input.shape) THEN args[last.inst].ds_out.Nx
                        ELSE IF k = Len(last.input.shape) - 1 THEN args[last.inst].ds_out.Ny
                        ELSE last.input.shape[k]
        ELSE /\ last.result.raised
             /\ last.result.exc = "AssertionError"
             /\ last.result.codec = <<>>

C4_Witness ==
    /\ last.op = "__call__"
    /\ last.input.kind = "ndarray"
    /\ Len(last.input.shape) = 3
    /\ ~last.result.raised
    /\ args[last.inst].ds_in.Ny # args[last.inst].ds_in.Nx
    /\ last.result.out.shape # last.input.shape

\* C9: once a Regridder is constructed, every clean_weight_file leaves no file
\* at its path, does not fail and changes nothing when the file is already
\* gone; neither clean_weight_file nor a call of the regridder changes a field
\* of the Regridder (the loaded operator, method, periodic, shapes, names,
\* filename), and a call with a correctly shaped array succeeds, on the loaded
\* operator, whether or not the file is still there.
C9_Teardown ==
    [][\A i \in DOMAIN pc :
           pc[i] = "ready" =>
               /\ pc'[i] = "ready"
               /\ rg'[i] = rg[i]
               /\ exc'[i] = exc[i]
               /\ last'.op = "clean_weight_file" =>
                      /\ ~path_exists(fs', rg[i].filename)
                      /\ ~last'.raised
                      /\ ~path_exists(fs, rg[i].filename) => fs' = fs
                      /\ \A q \in DOMAIN fs \ {rg[i].filename} :
                             path_exists(fs', q) /\ fs'[q] = fs[q]
               /\ last'.op = "__call__" =>
                      /\ fs' = fs
                      /\ (last'.input.kind = "ndarray"
                            /\ TrailingAxesMatch(i, last'.input.shape)) =>
                             /\ ~last'.result.raised
                             /\ last'.result.out.by = rg[i].A]_vars

\* a correctly shaped call succeeds after clean_weight_file has removed the file
C9_Witness ==
    \E i \in DOMAIN pc :
        /\ pc[i] = "ready"
        /\ ~path_exists(fs, rg[i].filename)
        /\ last.op = "__call__"
        /\ last.input.kind = "ndarray"
        /\ ~last.result.raised

\* instance i has built the weight file itself
Built(i) == \E k \in 1..Len(log[i]) : log[i][k][1] = "esmf_regrid_build"

\* instance i removed a file that was gone, loaded a file that was gone, or
\* loaded weights other than those it built or found
Clobbered(i) ==
    \/ pc[i] = "failed" /\ exc[i] \in {"FileNotFoundError", "IOError"}
    \/ /\ pc[i] = "ready"
       /\ rg[i].A.weights # (IF Built(i) THEN Weights(i) ELSE log[i][1][4])

\* C10: two constructions on one weight file that are run one after the other
\* never remove a missing file, load a missing file or load weights other than
\* those they built or found; constructions that interleave can (C10_Witness).
C10_SerialSafe ==
    sched = "serial" => \A i \in DOMAIN pc : ~Clobbered(i)

C10_Witness ==
    /\ sched = "interleaved"
    /\ \E i \in DOMAIN pc : Clobbered(i)

\* the pair of names of a convention ("A": COARDS, "B": CF)
ConventionPair(conv, boundary) ==
    IF conv = "A"
    THEN IF boundary THEN <<"lat_b", "lon_b">> ELSE <<"lat", "lon">>
    ELSE IF boundary THEN <<"latitude_b", "longitude_b">> ELSE <<"latitude", "longitude">>

HasPair(ds, pair) == {pair[1], pair[2]} \subseteq ds.keys

\* C5: get_latlon_name returns convention A's (lat_name, lon_name) when its
\* keys are present, else convention B's when its keys are present, and
\* otherwise fails with the convention-not-recognized error as an explicit
\* failing result (the ValueError it raises for that case reaching the
\* caller), rather than returning names or only printing a message.
C5_Locator ==
    ret.fn = "get_latlon_name" =>
        IF HasPair(call.ds, ConventionPair("A", call.boundary))
        THEN /\ ~ret.result.raised
             /\ ret.result.val = ConventionPair("A", call.boundary)
        ELSE IF HasPair(call.ds, ConventionPair("B", call.boundary))
        THEN /\ ~ret.result.raised
             /\ ret.result.val = ConventionPair("B", call.boundary)
        ELSE /\ ret.result.raised
             /\ ret.result.exc \in {"ConventionNotRecognized", "ValueError"}

ExposesCentres(ds) ==
    HasPair(ds, ConventionPair("A", FALSE)) \/ HasPair(ds, ConventionPair("B", FALSE))

ExposesCorners(ds) ==
    HasPair(ds, ConventionPair("A", TRUE)) \/ HasPair(ds, ConventionPair("B", TRUE))

NoCornerKeys(ds) == ds.keys \cap (LatBKeys \cup LonBKeys) = {}

\* C6: for every method but conservative, constructing a Regridder from two
\* grid descriptions that expose their cell centres under a supported
\* convention and hold no boundary keys, with no boundary names passed,
\* succeeds and reaches the weight file: boundary names are resolved only
\* when bounds are needed.
C6_BoundsOnlyWhenNeeded ==
    \A i \in DOMAIN pc :
        ( /\ pc[i] # "new"
          /\ args[i].method # "conservative"
          /\ ExposesCentres(args[i].ds_in) /\ NoCornerKeys(args[i].ds_in)
          /\ ExposesCentres(args[i].ds_out) /\ NoCornerKeys(args[i].ds_out)
          /\ args[i].lat_b_in = None /\ args[i].lon_b_in = None
          /\ args[i].lat_b_out = None /\ args[i].lon_b_out = None )
        => pc[i] = "exists"

\* the names are given and are keys of ds, or are left to a convention ds follows
CentresAvailable(c) ==
    IF c.lat = None /\ c.lon = None THEN ExposesCentres(c.ds)
    ELSE {c.lat, c.lon} \subseteq c.ds.keys

CornersAvailable(c) ==
    IF c.lat_b = None /\ c.lon_b = None THEN ExposesCorners(c.ds)
    ELSE {c.lat_b, c.lon_b} \subseteq c.ds.keys

\* C7: for a grid description with a latitude vector of length Ny and a
\* longitude vector of length Nx, ds_to_ESMFgrid returns the cell shape
\* (Ny, Nx) and hands esmf_grid the (transposed) longitude mesh built from the
\* longitude field and the latitude mesh built from the latitude field,
\* whether the names are passed or left to get_latlon_name; with
\* need_bounds the shape is still the cell shape and the corners attached are
\* the longitude and latitude boundary fields.
C7_GridShape ==
    ( /\ ret.fn = "ds_to_ESMFgrid"
      /\ call.ds.rank = 1
      /\ CentresAvailable(call)
      /\ call.need_bounds => CornersAvailable(call) )
    => /\ ~ret.result.raised
       /\ ret.result.shape = <<call.ds.Ny, call.ds.Nx>>
       /\ ret.result.grid.lon = [j \in 1..call.ds.Nx |-> [i \in 1..call.ds.Ny |-> j]]
       /\ ret.result.grid.lat = [j \in 1..call.ds.Nx |-> [i \in 1..call.ds.Ny |-> 100 + i]]
       /\ call.need_bounds =>
              /\ ret.result.grid.hasCorner
              /\ ret.result.grid.lon_b =
                     [j \in 1..(call.ds.Nx + 1) |-> [i \in 1..(call.ds.Ny + 1) |-> 200 + j]]
              /\ ret.result.grid.lat_b =
                     [j \in 1..(call.ds.Nx + 1) |-> [i \in 1..(call.ds.Ny + 1) |-> 300 + i]]

\* the dimension names of the destination grid, row first: those of the
\* dataset's variables, else the default pair
DestinationDims(i) ==
    LET ds == args[i].ds_out
        lonVar == ArrayOf(ds, rg[i].lon_name_out)
        latVar == ArrayOf(ds, rg[i].lat_name_out)
    IN  IF ds.rank = 2
        THEN IF IsDataset(ds) THEN <<Str(lonVar.dims[1]), Str(lonVar.dims[2])>>
             ELSE <<Str("y"), Str("x")>>
        ELSE IF IsDataset(ds) THEN <<Str(latVar.dims[1]), Str(lonVar.dims[1])>>
             ELSE <<Str(rg[i].lat_name_out), Str(rg[i].lon_name_out)>>

\* C8: whatever the destination grid (longitude of rank 1 or 2, a dataset with
\* dimension names or a dictionary without), horiz_dims is a pair of two
\* dimension names, row dimension first, and regridding a labeled array gives
\* the input's leading dimension names, unchanged, followed by that pair: as
\* many names as the input has axes; the coordinates of the leading dimensions
\* are copied unchanged and the destination longitude and latitude are
\* attached under the destination coordinate names.
C8_OutputDims ==
    \A i \in DOMAIN pc :
        pc[i] = "ready" =>
            /\ rg[i].horiz_dims.t = "tuple"
            /\ Len(rg[i].horiz_dims.items) = 2
            /\ \A k \in 1..2 : IsName(rg[i].horiz_dims.items[k])
            /\ rg[i].horiz_dims.items = DestinationDims(i)
            /\ ( /\ last.op = "__call__"
                 /\ last.inst = i
                 /\ last.input.kind = "DataArray"
                 /\ TrailingAxesMatch(i, last.input.shape) )
               => /\ ~last.result.raised
                  /\ Len(last.result.out.dims) = Len(last.input.shape)
                  /\ \A k \in 1..Len(last.input.shape) :
                         last.result.out.dims[k] =
                             IF k <= Len(last.input.shape) - 2
                             THEN Str(last.input.dims[k])
                             ELSE DestinationDims(i)[k - (Len(last.input.shape) - 2)]
                  /\ \A k \in 1..(Len(last.input.shape) - 2) :
                         last.result.out.coords[last.input.dims[k]] =
                             last.input.coords[last.input.dims[k]]
                  /\ last.result.out.coords[rg[i].lon_name_out].data = rg[i].lon_out
                  /\ last.result.out.coords[rg[i].lat_name_out].data = rg[i].lat_out

====
